---- MODULE Spec2Model ----
(***************************************************************************)
(* The TetrisGame component (examples/11-tetris/app/components/            *)
(* TetrisGame.tsx) as a state machine.                                     *)
(*                                                                         *)
(* gameState is the component's React state with every queued update       *)
(* applied in order; snap is the gameState value captured by the closures  *)
(* (movePiece, rotate, hardDrop, togglePause, handleKeyDown, gameLoop) of  *)
(* the last render.  A handler reads snap and queues an update, which is   *)
(* either a whole new state (setGameState({...})) or an updater applied to *)
(* the latest state (setGameState(prev => ...)).  Render re-creates the    *)
(* closures from the latest state.  When React renders is not decided by   *)
(* the component (the update of an animation frame is rendered in a later  *)
(* task), so in Spec any number of events may be handled between two       *)
(* renders; SerializedSpec is the same component with a render after every *)
(* update.                                                                 *)
(*                                                                         *)
(* lib/gameLogic and lib/tetrominos are modelled from the specification:   *)
(* the grid is 4 x 3 instead of 10 x 20, createTetromino draws from        *)
(* GenTypes, and locks counts the locks so that MaxLocks bounds a run.     *)
(*                                                                         *)
(* Both specifications include the GameOverModal of HighScores.tsx, which  *)
(* TetrisGame renders while gameOver is true.  ClearSpec applies           *)
(* clearLines to every grid built from six row patterns.  ChatSpec is the  *)
(* chat page (Home) with its loadMessages and connectSSE calls and a       *)
(* server that holds up to MaxMessages messages; ChatFairSpec adds that a  *)
(* fetch settles and a timer fires.                                        *)
(***************************************************************************)
EXTENDS Integers, Sequences, FiniteSets, TLC

\* ---- bounds of the model ----
BOARD_WIDTH == 4
BOARD_HEIGHT == 3
LinesPerLevel == 2
MaxLocks == 2

\* the kinds createTetromino draws from in the model
GenTypes == {"I", "O"}

\* ---- types/tetris.ts ----
TetrominoType == {"I", "O", "T", "S", "Z", "J", "L"}

NoPiece == [type |-> "none", shape |-> <<>>, position |-> [x |-> 0, y |-> 0]]

Empty == "empty"

\* ---- lib/tetrominos ----
SHAPES(t) ==
  CASE t = "I" -> << <<1, 1, 1, 1>> >>
    [] t = "O" -> << <<1, 1>>, <<1, 1>> >>
    [] t = "T" -> << <<0, 1, 0>>, <<1, 1, 1>> >>
    [] t = "S" -> << <<0, 1, 1>>, <<1, 1, 0>> >>
    [] t = "Z" -> << <<1, 1, 0>>, <<0, 1, 1>> >>
    [] t = "J" -> << <<1, 0, 0>>, <<1, 1, 1>> >>
    [] t = "L" -> << <<0, 0, 1>>, <<1, 1, 1>> >>

\* the colour token of a kind: the kind itself
COLORS(t) == t

createTetromino(t) ==
  [type |-> t,
   shape |-> SHAPES(t),
   position |-> [x |-> (BOARD_WIDTH - Len(SHAPES(t)[1])) \div 2, y |-> 0]]

\* the next mask of the rotation cycle: the mask turned a quarter clockwise
rotateShape(shape) ==
  LET rows == Len(shape)
      cols == Len(shape[1])
  IN [i \in 1..cols |-> [j \in 1..rows |-> shape[rows + 1 - j][i]]]

rotateTetromino(piece) == [piece EXCEPT !.shape = rotateShape(piece.shape)]

\* ---- lib/gameLogic ----
createEmptyBoard == [r \in 1..BOARD_HEIGHT |-> [c \in 1..BOARD_WIDTH |-> Empty]]

\* the occupied cells of a piece, as <<x, y>> grid coordinates from 0
PieceCells(piece) ==
  {<<piece.position.x + (c - 1), piece.position.y + (r - 1)>> :
     <<r, c>> \in {rc \in (1..Len(piece.shape)) \X (1..Len(piece.shape[1])) :
                     piece.shape[rc[1]][rc[2]] = 1}}

isValidMove(board, piece, dx, dy) ==
  \A cell \in PieceCells(piece) :
    LET newX == cell[1] + dx
        newY == cell[2] + dy
    IN /\ newX >= 0 /\ newX < BOARD_WIDTH
       /\ newY >= 0 /\ newY < BOARD_HEIGHT
       /\ board[newY + 1][newX + 1] = Empty

mergePieceToBoard(board, piece) ==
  [r \in 1..BOARD_HEIGHT |-> [c \in 1..BOARD_WIDTH |->
     IF <<c - 1, r - 1>> \in PieceCells(piece) THEN COLORS(piece.type)
     ELSE board[r][c]]]

IsFullRow(row) == \A c \in 1..Len(row) : row[c] # Empty

\* clearLines that removes the lowest full row only
clearLinesOnce(board) ==
  LET full == {r \in 1..Len(board) : IsFullRow(board[r])} IN
  IF full = {} THEN [board |-> board, linesCleared |-> 0]
  ELSE LET low == CHOOSE r \in full : \A q \in full : q <= r IN
       [board |-> << [c \in 1..BOARD_WIDTH |-> Empty] >> \o
                    [i \in 1..(Len(board) - 1) |->
                       IF i < low THEN board[i] ELSE board[i + 1]],
        linesCleared |-> 1]

clearLines(board) ==
  LET kept == SelectSeq(board, LAMBDA row : ~IsFullRow(row))
      n == Len(board) - Len(kept)
  IN [board |-> [i \in 1..n |-> [c \in 1..BOARD_WIDTH |-> Empty]] \o kept,
      linesCleared |-> n]

BaseScore(n) == CASE n = 0 -> 0 [] n = 1 -> 100 [] n = 2 -> 300
                  [] n = 3 -> 500 [] OTHER -> 800

calculateScore(linesCleared, level) == BaseScore(linesCleared) * (level + 1)

calculateLevel(lines) == lines \div LinesPerLevel

\* ---- components/TetrisGame.tsx ----
VARIABLES mounted, gameState, snap, locks, ev

\* the state of the mounted GameOverModal (NoModal when none is mounted) and
\* the bodies of its POST /api/high-scores requests that are not answered yet
\* (the answer to a request of an unmounted dialog sets nothing: the request
\* leaves the model with its dialog)
VARIABLES modal, requests

\* the grid handed to clearLines at a lock and the value the call returned
VARIABLES clearIn, clearOut

\* the chat page: whether the page is mounted, its messages and status
\* state, the progress of its loadMessages call and of its latest connectSSE
\* call, whether abortControllerRef.current is aborted, and the messages the
\* server holds
VARIABLES chatPage, messages, status, load, sse, aborted, server

gameVars == <<mounted, gameState, snap, locks, ev>>

dialogVars == <<modal, requests>>

clearVars == <<clearIn, clearOut>>

chatVars == <<chatPage, messages, status, load, sse, aborted, server>>

\* the variables that no event of the game page touches
offPage == <<clearVars, chatVars>>

\* the variables that no event of the chat page touches
offChat == <<gameVars, dialogVars, clearVars>>

vars == <<gameVars, dialogVars, clearVars, chatVars>>

NoModal == [shown |-> FALSE]

\* a GameOverModal right after it is mounted (useState initial values)
FreshModal ==
  [shown |-> TRUE, isAuthenticated |-> "null",
   submitted |-> FALSE, submitting |-> FALSE, error |-> FALSE]

NoDialog == modal = NoModal /\ requests = {}

\* no call of clearLines is being looked at
NoGrid == <<>>

ClearIdle == clearIn = NoGrid /\ clearOut = NoGrid

\* the progress of a loadMessages call: phase and the list the server answers
NoLoad == [phase |-> "none", data |-> <<>>]

\* the progress of a connectSSE call: phase and the number of the server's
\* messages the stream is past
NoStream == [phase |-> "none", cursor |-> 0]

\* the chat page before it is mounted (useState initial values)
ChatIdle ==
  /\ chatPage = "unmounted"
  /\ messages = <<>>
  /\ status = "connecting"
  /\ load = NoLoad
  /\ sse = NoStream
  /\ aborted = FALSE
  /\ server = <<>>

\* the outcome of the last handler run and the lines its lock cleared
Event(outcome, cleared) == [outcome |-> outcome, cleared |-> cleared]

\* the component before its mount effect has run
GameInit ==
  /\ mounted = FALSE
  /\ \E t \in GenTypes :
       gameState = [board |-> createEmptyBoard,
                    currentPiece |-> NoPiece,
                    nextPiece |-> createTetromino(t),
                    score |-> 0, level |-> 0, lines |-> 0,
                    gameOver |-> FALSE, paused |-> FALSE]
  /\ snap = gameState
  /\ locks = 0
  /\ ev = Event("none", 0)

\* the game page before it is loaded
GameIdle ==
  /\ mounted = FALSE
  /\ gameState = [board |-> createEmptyBoard,
                  currentPiece |-> NoPiece,
                  nextPiece |-> createTetromino("I"),
                  score |-> 0, level |-> 0, lines |-> 0,
                  gameOver |-> FALSE, paused |-> FALSE]
  /\ snap = gameState
  /\ locks = 0
  /\ ev = Event("none", 0)
  /\ NoDialog

Init ==
  /\ GameInit
  /\ NoDialog
  /\ ClearIdle
  /\ ChatIdle

\* a handler ran and queued no update
Ignored(outcome) ==
  /\ ev' = Event(outcome, 0)
  /\ UNCHANGED <<mounted, gameState, snap, locks>>

\* a restart that resets the grid and the pieces only
startGameKeepsProgress ==
  /\ \E t1 \in GenTypes, t2 \in GenTypes :
       gameState' = [gameState EXCEPT !.board = createEmptyBoard,
                                      !.currentPiece = createTetromino(t1),
                                      !.nextPiece = createTetromino(t2),
                                      !.gameOver = FALSE]
  /\ ev' = Event("started", 0)
  /\ UNCHANGED <<snap, locks>>

startGame ==
  /\ \E t1 \in GenTypes, t2 \in GenTypes :
       gameState' = [board |-> createEmptyBoard,
                     currentPiece |-> createTetromino(t1),
                     nextPiece |-> createTetromino(t2),
                     score |-> 0, level |-> 0, lines |-> 0,
                     gameOver |-> FALSE, paused |-> FALSE]
  /\ ev' = Event("started", 0)
  /\ UNCHANGED <<snap, locks>>

\* the mount effect: setMounted(true); startGame()
Mount ==
  /\ ~mounted
  /\ mounted' = TRUE
  /\ startGame

Restart ==
  /\ mounted
  /\ UNCHANGED mounted
  /\ startGame

\* the piece of movePiece's first step: the same piece, dx and dy further
shiftPiece(piece, dx, dy) ==
  [piece EXCEPT !.position = [x |-> piece.position.x + dx,
                              y |-> piece.position.y + dy]]

\* a lock that forgets the score accumulated so far
lockScoreForgetful(s, linesCleared) == calculateScore(linesCleared, s.level)

\* newScore of a lock computed from the state s
lockScore(s, linesCleared) == s.score + calculateScore(linesCleared, s.level)

movePiece(dx, dy) ==
  IF snap.gameOver \/ snap.paused \/ snap.currentPiece = NoPiece
  THEN Ignored("ignored")
  ELSE
    LET newPiece == shiftPiece(snap.currentPiece, dx, dy) IN
    IF isValidMove(snap.board, newPiece, 0, 0)
    THEN /\ gameState' = [gameState EXCEPT !.currentPiece = newPiece]
         /\ ev' = Event("moved", 0)
         /\ UNCHANGED <<mounted, snap, locks>>
    ELSE IF dy > 0
    THEN
      LET newBoard == mergePieceToBoard(snap.board, snap.currentPiece)
          cl == clearLines(newBoard)
          newLines == snap.lines + cl.linesCleared
          newLevel == calculateLevel(newLines)
          newScore == lockScore(snap, cl.linesCleared)
      IN
      /\ locks < MaxLocks
      /\ \E t0 \in GenTypes :
           LET nextPiece == IF snap.nextPiece # NoPiece THEN snap.nextPiece
                            ELSE createTetromino(t0)
           IN
           IF ~isValidMove(cl.board, nextPiece, 0, 0)
           THEN /\ gameState' = [gameState EXCEPT !.board = cl.board,
                                                  !.gameOver = TRUE]
                /\ ev' = Event("over", cl.linesCleared)
           ELSE /\ \E t \in GenTypes :
                     gameState' = [board |-> cl.board,
                                   currentPiece |-> nextPiece,
                                   nextPiece |-> createTetromino(t),
                                   score |-> newScore,
                                   level |-> newLevel,
                                   lines |-> newLines,
                                   gameOver |-> FALSE,
                                   paused |-> FALSE]
                /\ ev' = Event("locked", cl.linesCleared)
      /\ locks' = locks + 1
      /\ UNCHANGED <<mounted, snap>>
    ELSE Ignored("rejected")

rotate ==
  IF snap.gameOver \/ snap.paused \/ snap.currentPiece = NoPiece
  THEN Ignored("ignored")
  ELSE
    LET rotated == rotateTetromino(snap.currentPiece) IN
    IF isValidMove(snap.board, rotated, 0, 0)
    THEN /\ gameState' = [gameState EXCEPT !.currentPiece = rotated]
         /\ ev' = Event("rotated", 0)
         /\ UNCHANGED <<mounted, snap, locks>>
    ELSE Ignored("rejected")

RECURSIVE DropDistance(_, _, _)
DropDistance(board, piece, d) ==
  IF isValidMove(board, piece, 0, d + 1) THEN DropDistance(board, piece, d + 1)
  ELSE d

hardDrop ==
  IF snap.gameOver \/ snap.paused \/ snap.currentPiece = NoPiece
  THEN Ignored("ignored")
  ELSE
    LET dropDistance == DropDistance(snap.board, snap.currentPiece, 0) IN
    IF dropDistance > 0 THEN movePiece(0, dropDistance)
    ELSE Ignored("rejected")

togglePause ==
  IF ~snap.gameOver
  THEN       /\ gameState' = [gameState EXCEPT !.paused = ~gameState.paused]
       /\ ev' = Event("toggled", 0)
       /\ UNCHANGED <<mounted, snap, locks>>
  ELSE Ignored("ignored")

\* handleKeyDown: one key press, dispatched on e.key
handleKeyDown(key) ==
  IF snap.gameOver THEN Ignored("ignored")
  ELSE CASE key = "ArrowLeft" -> movePiece(-1, 0)
         [] key = "ArrowRight" -> movePiece(1, 0)
         [] key = "ArrowDown" -> movePiece(0, 1)
         [] key = "ArrowUp" -> rotate
         [] key = "Space" -> hardDrop
         [] key = "p" -> togglePause

KeyLeft ==
  /\ mounted
  /\ handleKeyDown("ArrowLeft")

KeyRight ==
  /\ mounted
  /\ handleKeyDown("ArrowRight")

KeyDown ==
  /\ mounted
  /\ handleKeyDown("ArrowDown")

KeyUp ==
  /\ mounted
  /\ handleKeyDown("ArrowUp")

KeySpace ==
  /\ mounted
  /\ handleKeyDown("Space")

KeyP ==
  /\ mounted
  /\ handleKeyDown("p")


\* the Pause button of GameInfo
PauseButton ==
  /\ mounted
  /\ togglePause

\* gameLoop: the animation frame in which the drop interval has elapsed;
\* the game loop effect installs it only for a running game
Tick ==
  /\ mounted
  /\ ~(snap.gameOver \/ snap.paused \/ snap.currentPiece = NoPiece)
  /\ movePiece(0, 1)

\* React renders the latest state: the closures of the handlers and of the
\* effects are re-created from it
Render ==
  /\ snap # gameState
  /\ snap' = gameState
  /\ ev' = Event("none", 0)
  /\ modal' = IF ~gameState.gameOver THEN NoModal
              ELSE IF modal = NoModal THEN FreshModal
              ELSE modal
  /\ requests' = IF gameState.gameOver THEN requests ELSE {}
  /\ UNCHANGED <<mounted, gameState, locks>>

\* ---- components/HighScores.tsx: GameOverModal ----

\* the body of a submission with the fields of a swapped
submitBodySwapped(s) == [score |-> s.score, level |-> s.lines, lines |-> s.level]

\* JSON.stringify({ score, level, lines }) of the props the last render of
\* TetrisGame passed to the dialog
submitBody(s) == [score |-> s.score, level |-> s.level, lines |-> s.lines]

\* fetch("/api/auth/me") of the mount effect is answered or fails
AuthSettled ==
  /\ modal # NoModal
  /\ modal.isAuthenticated = "null"
  /\ \E a \in {"yes", "no"} : modal' = [modal EXCEPT !.isAuthenticated = a]
  /\ ev' = Event("none", 0)
  /\ UNCHANGED <<mounted, gameState, snap, locks, requests>>

\* a click on Submit Score, which is rendered for a signed-in player whose
\* score is not submitted and is disabled while a submission is under way
handleSubmit ==
  /\ modal # NoModal
  /\ modal.isAuthenticated = "yes"
  /\ ~modal.submitted
  /\ ~modal.submitting
  /\ modal' = [modal EXCEPT !.error = FALSE, !.submitting = TRUE]
  /\ requests' = requests \cup {submitBody(snap)}
  /\ ev' = Event("submitted", 0)
  /\ UNCHANGED <<mounted, gameState, snap, locks>>

\* the answer to a POST arrives: setSubmitted(true) or setError(...), then
\* setSubmitting(false)
SubmitSettled ==
  /\ \E r \in requests, ok \in BOOLEAN :
       /\ requests' = requests \ {r}
       /\ modal' = [modal EXCEPT !.submitted = ok, !.error = ~ok,
                                  !.submitting = FALSE]
  /\ ev' = Event("none", 0)
  /\ UNCHANGED <<mounted, gameState, snap, locks>>

\* Skip / Play Again: setSubmitted(false); setError(""); onRestart()
handleRestart ==
  /\ modal # NoModal
  /\ modal' = [modal EXCEPT !.submitted = FALSE, !.error = FALSE]
  /\ startGame
  /\ UNCHANGED <<mounted, requests>>

Next ==
  \/ Mount /\ UNCHANGED <<dialogVars, offPage>>
  \/ Restart /\ UNCHANGED <<dialogVars, offPage>>
  \/ KeyLeft /\ UNCHANGED <<dialogVars, offPage>>
  \/ KeyRight /\ UNCHANGED <<dialogVars, offPage>>
  \/ KeyDown /\ UNCHANGED <<dialogVars, offPage>>
  \/ KeyUp /\ UNCHANGED <<dialogVars, offPage>>
  \/ KeySpace /\ UNCHANGED <<dialogVars, offPage>>
  \/ KeyP /\ UNCHANGED <<dialogVars, offPage>>
  \/ PauseButton /\ UNCHANGED <<dialogVars, offPage>>
  \/ Tick /\ UNCHANGED <<dialogVars, offPage>>
  \/ Render /\ UNCHANGED offPage
  \/ AuthSettled /\ UNCHANGED offPage
  \/ handleSubmit /\ UNCHANGED offPage
  \/ SubmitSettled /\ UNCHANGED offPage
  \/ handleRestart /\ UNCHANGED offPage

Spec == Init /\ [][Next]_vars

\* the same component when every handler runs on closures of the latest state
\* (a render follows every queued update before the next event is handled)
Rendered == snap = gameState

SerializedNext ==
  \/ Rendered /\ Mount /\ UNCHANGED <<dialogVars, offPage>>
  \/ Rendered /\ Restart /\ UNCHANGED <<dialogVars, offPage>>
  \/ Rendered /\ KeyLeft /\ UNCHANGED <<dialogVars, offPage>>
  \/ Rendered /\ KeyRight /\ UNCHANGED <<dialogVars, offPage>>
  \/ Rendered /\ KeyDown /\ UNCHANGED <<dialogVars, offPage>>
  \/ Rendered /\ KeyUp /\ UNCHANGED <<dialogVars, offPage>>
  \/ Rendered /\ KeySpace /\ UNCHANGED <<dialogVars, offPage>>
  \/ Rendered /\ KeyP /\ UNCHANGED <<dialogVars, offPage>>
  \/ Rendered /\ PauseButton /\ UNCHANGED <<dialogVars, offPage>>
  \/ Rendered /\ Tick /\ UNCHANGED <<dialogVars, offPage>>
  \/ Render /\ UNCHANGED offPage
  \/ AuthSettled /\ UNCHANGED offPage
  \/ Rendered /\ handleSubmit /\ UNCHANGED offPage
  \/ SubmitSettled /\ UNCHANGED offPage
  \/ Rendered /\ handleRestart /\ UNCHANGED offPage

SerializedSpec == Init /\ [][SerializedNext]_vars

\* ---- clearLines on its own: every grid of the row patterns below ----

\* the rows the grids are built from: empty, full in one colour, full in two
\* colours, and three rows that are not full and differ from one another
RowKinds == {"empty", "full", "mixed", "first", "last", "gap"}

RowOf(kind) ==
  [c \in 1..BOARD_WIDTH |->
     CASE kind = "empty" -> Empty
       [] kind = "full" -> "I"
       [] kind = "mixed" -> IF c = 1 THEN "O" ELSE "I"
       [] kind = "first" -> IF c = 1 THEN "O" ELSE Empty
       [] kind = "last" -> IF c = BOARD_WIDTH THEN "I" ELSE Empty
       [] kind = "gap" -> IF c = 1 THEN Empty ELSE "O"]

Grids == [1..BOARD_HEIGHT -> {RowOf(k) : k \in RowKinds}]

ClearInit ==
  /\ GameIdle
  /\ ChatIdle
  /\ clearIn \in Grids
  /\ clearOut = NoGrid

\* the one call of a lock: const { board, linesCleared } = clearLines(newBoard)
ClearFullLines ==
  /\ clearOut = NoGrid
  /\ clearOut' = clearLines(clearIn)
  /\ UNCHANGED <<gameVars, dialogVars, chatVars, clearIn>>

\* the next lock hands over another grid
NextGrid ==
  /\ clearOut # NoGrid
  /\ clearIn' \in Grids
  /\ clearOut' = NoGrid
  /\ UNCHANGED <<gameVars, dialogVars, chatVars>>

ClearNext ==
  \/ ClearFullLines
  \/ NextGrid

ClearSpec == ClearInit /\ [][ClearNext]_vars

\* ---- the chat page (Home) ----

\* the most messages the server holds in a run
MaxMessages == 2

\* the ids of the messages of a list
Ids(list) == {list[i] : i \in 1..Len(list)}

\* a state setter: React drops the update of a component that is unmounted
SetState(old, new) == IF chatPage = "gone" THEN old ELSE new

ChatInit ==
  /\ GameIdle
  /\ ClearIdle
  /\ ChatIdle

\* connectSSE up to its first await: setStatus('connecting'), a new
\* AbortController in abortControllerRef, fetch(/api/stream) issued
connectSSE ==
  /\ status' = SetState(status, "connecting")
  /\ aborted' = FALSE
  /\ sse' = [phase |-> "fetching", cursor |-> 0]

\* the mount effect: loadMessages(); connectSSE()
ChatMount ==
  /\ chatPage = "unmounted"
  /\ chatPage' = "mounted"
  /\ load' = [phase |-> "sent", data |-> <<>>]
  /\ connectSSE
  /\ UNCHANGED <<messages, server, offChat>>

\* the cleanup of the mount effect: abortControllerRef.current.abort()
ChatUnmount ==
  /\ chatPage = "mounted"
  /\ chatPage' = "gone"
  /\ aborted' = TRUE
  /\ UNCHANGED <<messages, status, load, sse, server, offChat>>

\* somebody posts a message: the server gives it the next id
Post ==
  /\ Len(server) < MaxMessages
  /\ server' = Append(server, Len(server) + 1)
  /\ UNCHANGED <<chatPage, messages, status, load, sse, aborted, offChat>>

\* the server answers GET /api/messages with the messages it holds
LoadAnswered ==
  /\ load.phase = "sent"
  /\ load' = [phase |-> "answered", data |-> server]
  /\ UNCHANGED <<chatPage, messages, status, sse, aborted, server, offChat>>

\* loadMessages after its awaits: setMessages(data.messages || [])
LoadArrives ==
  /\ load.phase = "answered"
  /\ load' = [phase |-> "done", data |-> <<>>]
  /\ messages' = SetState(messages, load.data)
  /\ UNCHANGED <<chatPage, status, sse, aborted, server, offChat>>

\* loadMessages: fetch or response.json() rejects, the catch only logs
LoadFails ==
  /\ load.phase \in {"sent", "answered"}
  /\ load' = [phase |-> "done", data |-> <<>>]
  /\ UNCHANGED <<chatPage, messages, status, sse, aborted, server, offChat>>

\* the catch of connectSSE for an error that is not an AbortError:
\* setStatus('disconnected') and setTimeout(connectSSE, 2000)
Disconnected ==
  /\ status' = SetState(status, "disconnected")
  /\ sse' = [phase |-> "waiting", cursor |-> 0]

\* await fetch(/api/stream) settles: AbortError when the controller is
\* aborted; otherwise the fetch rejects, or the response is not OK, or it has
\* no body (the 'connected' set before the throw is never rendered), or the
\* stream is open, from a place in the server's messages the server chooses
FetchSettles ==
  /\ sse.phase = "fetching"
  /\ IF aborted
     THEN /\ sse' = [phase |-> "aborted", cursor |-> 0]
          /\ UNCHANGED status
     ELSE \/ Disconnected
          \/ /\ status' = SetState(status, "connected")
             /\ \E from \in 0..Len(server) :
                  sse' = [phase |-> "reading", cursor |-> from]
  /\ UNCHANGED <<chatPage, messages, load, aborted, server, offChat>>

\* the update of the 'message' event: append unless the id is in the list
appendMessage(prev, id) == IF id \in Ids(prev) THEN prev ELSE Append(prev, id)

\* reader.read() returns a chunk with the next 'message' event
StreamMessage ==
  /\ sse.phase = "reading"
  /\ ~aborted
  /\ sse.cursor < Len(server)
  /\ sse' = [sse EXCEPT !.cursor = sse.cursor + 1]
  /\ messages' = SetState(messages, appendMessage(messages, server[sse.cursor + 1]))
  /\ UNCHANGED <<chatPage, status, load, aborted, server, offChat>>

\* reader.read() returns done: the loop breaks and connectSSE returns
StreamEnds ==
  /\ sse.phase = "reading"
  /\ ~aborted
  /\ sse' = [phase |-> "ended", cursor |-> 0]
  /\ UNCHANGED <<chatPage, messages, status, load, aborted, server, offChat>>

\* reader.read() rejects: AbortError when the controller is aborted, a
\* network error otherwise
StreamFails ==
  /\ sse.phase = "reading"
  /\ IF aborted
     THEN /\ sse' = [phase |-> "aborted", cursor |-> 0]
          /\ UNCHANGED status
     ELSE Disconnected
  /\ UNCHANGED <<chatPage, messages, load, aborted, server, offChat>>

\* the reconnect timer fires two seconds after the catch: connectSSE()
TimerFires ==
  /\ sse.phase = "waiting"
  /\ connectSSE
  /\ UNCHANGED <<chatPage, messages, load, server, offChat>>

ChatNext ==
  \/ ChatMount
  \/ ChatUnmount
  \/ Post
  \/ LoadAnswered
  \/ LoadArrives
  \/ LoadFails
  \/ FetchSettles
  \/ StreamMessage
  \/ StreamEnds
  \/ StreamFails
  \/ TimerFires

ChatSpec == ChatInit /\ [][ChatNext]_vars

\* a fetch that is issued settles and a timer that is set fires
ChatFairSpec ==
  /\ ChatSpec
  /\ WF_vars(FetchSettles)
  /\ WF_vars(TimerFires)

\* ---- claims ----

\* C1: whenever there is an active piece and the game is not over, every
\* occupied cell of the active piece lies inside the grid and over an empty
\* cell of the board.
C1_ActivePieceFits ==
  (gameState.currentPiece # NoPiece /\ ~gameState.gameOver) =>
    isValidMove(gameState.board, gameState.currentPiece, 0, 0)


\* ---- helpers of the claims ----

Running(s) == ~s.gameOver /\ ~s.paused /\ s.currentPiece # NoPiece

\* the board a lock of the active piece of s leaves, and the lines it clears
PostLock(s) == clearLines(mergePieceToBoard(s.board, s.currentPiece))

IsLockStep == ev'.outcome \in {"locked", "over"}

IsRestartStep == ev'.outcome = "started"

\* C2: after every lock event, lines grows by the lines the lock cleared,
\* score grows by calculateScore(linesCleared, level before the lock) and
\* level is calculateLevel of the new line count, also when the lock ends the
\* game.
C2_LockUpdatesCounters ==
  [][IsLockStep =>
       /\ gameState'.lines = gameState.lines + ev'.cleared
       /\ gameState'.score =
            gameState.score + calculateScore(ev'.cleared, gameState.level)
       /\ gameState'.level = calculateLevel(gameState'.lines)]_vars

\* C3: a move down onto an invalid placement locks the active piece (the
\* board becomes the old board with the piece written at its position, full
\* lines cleared); a sideways move onto an invalid placement changes nothing;
\* a move onto a valid placement changes only the position of the active
\* piece.  The moves are those of a running game whose handler did not
\* return early.
C3_MoveDx(key, dx) ==
  (key /\ Running(gameState) /\ Running(snap)) =>
    IF isValidMove(gameState.board, gameState.currentPiece, dx, 0)
    THEN gameState' = [gameState EXCEPT
                         !.currentPiece = shiftPiece(gameState.currentPiece, dx, 0)]
    ELSE gameState' = gameState

C3_MoveDown ==
  ((KeyDown \/ Tick) /\ Running(gameState) /\ Running(snap)) =>
    IF isValidMove(gameState.board, gameState.currentPiece, 0, 1)
    THEN gameState' = [gameState EXCEPT
                         !.currentPiece = shiftPiece(gameState.currentPiece, 0, 1)]
    ELSE /\ IsLockStep
         /\ gameState'.board = PostLock(gameState).board

\* C3 (the three outcomes of a move, for ArrowLeft, ArrowRight, ArrowDown
\* and the tick): lock on a blocked move down, nothing on a blocked sideways
\* move, only the position on a valid move.
C3_MoveOutcomes ==
  [][/\ C3_MoveDx(KeyLeft, -1)
     /\ C3_MoveDx(KeyRight, 1)
     /\ C3_MoveDown]_vars


\* C4: gameOver becomes true exactly at a lock event whose queued next piece
\* does not fit the post-clear board; that step sets board to the post-clear
\* board and leaves the active piece and the queued piece as they were.
C4_GameOverAtBlockedSpawn ==
  [][/\ (~gameState.gameOver /\ gameState'.gameOver) =>
          /\ IsLockStep
          /\ gameState.currentPiece # NoPiece
          /\ ~isValidMove(PostLock(gameState).board, gameState.nextPiece, 0, 0)
          /\ gameState'.board = PostLock(gameState).board
          /\ gameState'.currentPiece = gameState.currentPiece
          /\ gameState'.nextPiece = gameState.nextPiece
     /\ (/\ IsLockStep
         /\ gameState.currentPiece # NoPiece
         /\ ~isValidMove(PostLock(gameState).board, gameState.nextPiece, 0, 0)) =>
          gameState'.gameOver]_vars

\* C5: once gameOver is true, no event other than restart changes any field
\* of the game state.
C5_TerminalIsFrozen ==
  [][(gameState.gameOver /\ ~IsRestartStep) => gameState' = gameState]_vars

\* C6: while paused is true, the only events that change the game state are
\* the pause toggle, which flips paused and nothing else, and restart; the
\* pause toggle is accepted in every state that is not terminal.
C6_PausedIsFrozen ==
  [][/\ (gameState.paused /\ ~IsRestartStep) =>
          \/ gameState' = gameState
          \/ /\ KeyP \/ PauseButton
             /\ gameState' = [gameState EXCEPT !.paused = FALSE]
     /\ ((KeyP \/ PauseButton) /\ ~gameState.gameOver) =>
          gameState' = [gameState EXCEPT !.paused = ~gameState.paused]]_vars

\* C7: after a lock that does not end the game, the active piece is the piece
\* that was queued before the lock (a freshly created piece of its kind) and
\* nextPiece is a generated piece; no event but a lock or a restart changes
\* nextPiece.
C7_QueuedPieceBecomesActive ==
  [][/\ ev'.outcome = "locked" =>
          /\ gameState'.currentPiece = gameState.nextPiece
          /\ gameState'.currentPiece = createTetromino(gameState.nextPiece.type)
          /\ \E t \in TetrominoType : gameState'.nextPiece = createTetromino(t)
     /\ (ev'.outcome # "locked" /\ ~IsRestartStep) =>
          gameState'.nextPiece = gameState.nextPiece]_vars

\* C8: within a game, score, level and lines are never negative and no step
\* other than a restart decreases any of them.
C8_CountersNeverDecrease ==
  [][/\ gameState'.score >= 0 /\ gameState'.level >= 0 /\ gameState'.lines >= 0
     /\ ~IsRestartStep =>
          /\ gameState'.score >= gameState.score
          /\ gameState'.level >= gameState.level
          /\ gameState'.lines >= gameState.lines]_vars

\* a lock that cleared a line left a game with level above 0
C8_Witness ==
  /\ ev.outcome = "locked"
  /\ ev.cleared > 0
  /\ gameState.level > 0
  /\ gameState.score > 100

\* C9: a restart, from any state, leaves the empty board, two freshly created
\* pieces, score = level = lines = 0, gameOver = FALSE and paused = FALSE.
C9_RestartReplacesState ==
  [][(Mount \/ Restart) =>
       /\ gameState'.board = createEmptyBoard
       /\ \E t \in TetrominoType : gameState'.currentPiece = createTetromino(t)
       /\ \E t \in TetrominoType : gameState'.nextPiece = createTetromino(t)
       /\ gameState'.score = 0 /\ gameState'.level = 0 /\ gameState'.lines = 0
       /\ ~gameState'.gameOver /\ ~gameState'.paused]_vars

\* a restart was issued while the game over dialog was shown
C9_Witness ==
  /\ ev.outcome = "started"
  /\ snap.gameOver
  /\ snap.board # createEmptyBoard
  /\ gameState.board = createEmptyBoard

\* an update that its handler derived from the game state it read
IsDerivedStep == ev'.outcome \in {"moved", "rotated", "locked", "over"}

\* C10: every update that a handler derives from the game state it reads
\* (a move, a rotation, a lock) is derived from the latest game state: when
\* such an update is applied, the snapshot its handler read is the state the
\* update is applied to, so no two of them come from one rendered snapshot.
C10_UpdatesFromLatestState ==
  [][IsDerivedStep => snap = gameState]_vars

\* ---- helpers of C12 ----

FullRows(board) == {r \in 1..Len(board) : IsFullRow(board[r])}

\* the rows of board that are not full, top to bottom
RECURSIVE NonFullRows(_)
NonFullRows(board) ==
  IF board = <<>> THEN <<>>
  ELSE IF IsFullRow(board[1]) THEN NonFullRows(Tail(board))
       ELSE <<board[1]>> \o NonFullRows(Tail(board))

\* C12: for a grid with exactly k full rows, clearLines returns linesCleared
\* = k and a grid of the same height and width whose top k rows are empty and
\* whose other rows are the non-full rows of the input in their order; the
\* one call removes every full row.
C12_ClearRemovesAllFullRows ==
  clearOut # NoGrid =>
    LET k == Cardinality(FullRows(clearIn))
        out == clearOut.board
    IN /\ clearOut.linesCleared = k
       /\ Len(out) = Len(clearIn)
       /\ \A r \in 1..Len(out) : Len(out[r]) = BOARD_WIDTH
       /\ \A r \in 1..k : \A c \in 1..BOARD_WIDTH : out[r][c] = Empty
       /\ SubSeq(out, k + 1, Len(out)) = NonFullRows(clearIn)
       /\ (k = 0 => out = clearIn)

\* two full rows with a row that is not full between them were cleared
C12_Witness ==
  /\ clearOut # NoGrid
  /\ clearOut.linesCleared = 2
  /\ IsFullRow(clearIn[1]) /\ ~IsFullRow(clearIn[2]) /\ IsFullRow(clearIn[3])
  /\ clearIn[2] # RowOf("empty")

\* the largest d such that the offsets 1..d down are all valid placements
MaxDrop(board, piece) ==
  CHOOSE d \in 0..BOARD_HEIGHT :
    /\ \A k \in 1..d : isValidMove(board, piece, 0, k)
    /\ ~isValidMove(board, piece, 0, d + 1)

\* C14: a hard drop of a running game never locks: it moves the active piece
\* down by the largest d whose offsets 1..d are all valid placements and
\* changes nothing else of the game state (nothing at all when d = 0).
C14_HardDropOnlyDrops ==
  [][(KeySpace /\ Running(gameState) /\ Running(snap)) =>
       /\ ~IsLockStep
       /\ gameState' =
            [gameState EXCEPT !.currentPiece =
               shiftPiece(gameState.currentPiece, 0,
                          MaxDrop(gameState.board, gameState.currentPiece))]]_vars

\* the counters of a game state
Counters(s) == [score |-> s.score, level |-> s.level, lines |-> s.lines]

Lost == chatPage = "mounted" /\ sse.phase \in {"waiting", "ended"}

\* a request or a stream of the page is open on the network
ConnectionLive == sse.phase \in {"fetching", "reading"} /\ ~aborted

\* C13: while the page is mounted, status is 'connected' only while a stream
\* is being read, and whenever the connection is lost (the fetch rejected,
\* the response was not OK or had no body, or the stream ended) a new
\* connection attempt is eventually started.
C13_ReconnectAfterLoss ==
  /\ []((chatPage = "mounted" /\ status = "connected") => sse.phase = "reading")
  /\ (Lost ~> (sse.phase = "fetching" \/ chatPage # "mounted"))

\* C15: no step removes a message from the displayed list, and the list
\* never holds two entries with the same id.
C15_MessagesAreKept ==
  [][/\ Ids(messages) \subseteq Ids(messages')
     /\ Cardinality(Ids(messages')) = Len(messages')]_vars

\* C16: once the page is unmounted, no request or stream of the page is
\* open and no connection attempt is started.
C16_NoConnectionAfterUnmount ==
  [][chatPage' = "gone" => (~ConnectionLive' /\ ~TimerFires)]_vars

====
